---- MODULE Spec2Model ----
(***************************************************************************)
(* Model of the polling utilities of src/e2e/utils/Utilities.ts:           *)
(*   Utilities.waitUntil, Utilities.waitForElementToBeEnabled and          *)
(*   Utilities.waitForElementToStopMoving.                                 *)
(*                                                                         *)
(* One call of one poller runs on a single-threaded event loop.  Every     *)
(* action is the synchronous stretch of code between two awaits.  The      *)
(* clock (Date.now) is the variable now; one unit of now stands for 1000   *)
(* ms, so fallBackTimeout = 2000 ms is 2 units.  An awaited predicate or   *)
(* sample takes between 0 and MaxLatency units, a timer fires between 0    *)
(* and MaxLate units after the instant it was armed for.  A second task    *)
(* ("other") is always ready to run on the same event loop.                *)
(***************************************************************************)
EXTENDS Integers, Sequences, FiniteSets, TLC

\* ---------------------------------------------------------------- bounds
MaxTimeout == 3
MaxInterval == 2
MaxStable == 3
MaxEvals == 3
MaxLatency == 1
MaxLate == 1
MaxOps == 3

\* ------------------------------------------------------------- constants
\* const fallBackTimeout = 2000 (ms), in clock units of 1000 ms
fallBackTimeout == 2

Kinds == {"waitUntil", "enabled", "stable"}
Errors == {"E1", "E2"}
Coords == {1, 2}
\* the instants of the clock at which the call can be made
StartTimes == {0, 1}

VARIABLES
    kind,          \* which poller was called
    timeout,       \* argument timeout
    interval,      \* argument interval
    stableCount,   \* argument stableCount (waitForElementToStopMoving)
    now,           \* Date.now()
    pc,            \* "idle" | "evaluating" | "sleeping" | "fallback" | "done"
    outcome,       \* "none" | "resolved" | "rejected"
    error,         \* the error the call rejected with
    startTime,     \* const startTime / const start
    endTime,       \* const endTime (waitUntil)
    evalStart,     \* instant the evaluation in flight was started
    wakeAt,        \* instant the pending timer was armed for
    results,       \* every predicate / sample outcome so far, in order
    waits,         \* the delay of every timer armed so far, in order
    isEnabled,     \* let isEnabled (waitForElementToBeEnabled)
    lastPosition,  \* let lastPosition (waitForElementToStopMoving)
    stableChecks,  \* let stableChecks (waitForElementToStopMoving)
    runq,          \* event loop: callbacks in the order they will run
    otherRan,      \* the other task ran since the poll last suspended on a timer
    punctual       \* no evaluation took time and no timer fired late so far

vars == <<kind, timeout, interval, stableCount, now, pc, outcome, error,
          startTime, endTime, evalStart, wakeAt, results, waits, isEnabled,
          lastPosition, stableChecks, runq, otherRan, punctual>>

\* the state of the calls of Assertions (src/unnamed/part_000)
VARIABLES
    elementEnabled,   \* the attribute `enabled` of the element under test
    enabledResult,    \* <<b>> once checkIfEnabled resolved to b, else <<>>
    disabledResult,   \* <<b>> once checkIfDisabled resolved to b, else <<>>
    actual,           \* argument actual of checkIfObjectContains
    partial,          \* argument partial of checkIfObjectContains
    deep,             \* argument deep of checkIfObjectContains
    sameRef,          \* keys under which actual and partial hold the same object
    containsOutcome,  \* "pending" | "resolved" | "rejected"
    containsError     \* the lines of the error checkIfObjectContains rejected with

assertionVars == <<elementEnabled, enabledResult, disabledResult, actual,
                   partial, deep, sameRef, containsOutcome, containsError>>

\* the state of one call of Gestures.waitAndTap (src/e2e/utils/Gestures.ts)
VARIABLES
    tapPc,                \* "idle" | "element" | "visibility" | "delaying" |
                          \* "delayed" | "enabling" | "tapping" | "done"
    skipVisibilityCheck,  \* option skipVisibilityCheck
    delayBeforeTap,       \* option delayBeforeTap
    steps,                \* the steps waitAndTap has performed, in order
    taps,                 \* how many times tap() was issued on the element
    tapOutcome,           \* "none" | "resolved" | "rejected"
    tapFailed             \* the step whose failure waitAndTap rejected with

gestureVars == <<tapPc, skipVisibilityCheck, delayBeforeTap, steps, taps,
                 tapOutcome, tapFailed>>

\* the state of the component RootRPCMethodsUI and of its hook
\* useSwapConfirmedEvent (src/unnamed/part_001)
VARIABLES
    listening,             \* state transactionMetaIdsForListening, as rendered
    updates,               \* state updates queued since the last render
    swapsTransactions,     \* ids that have an entry in swapsTransactions
    renderedSwaps,         \* swapsTransactions as the last render saw it
    effectPending,         \* the effect of the last render has not run yet
    confirmedSubs,         \* ids subscribed for transactionConfirmed, in order
    added,                 \* ids passed to addTransactionMetaIdForListening
    txPc,                  \* per transaction: where its handler stands
    txMeta,                \* per transaction: the fields its handler reads
    txLog,                 \* per transaction: what its handler did, in order
    transactionModalType,  \* state transactionModalType
    lastSetter             \* the callback that set transactionModalType last

swapVars == <<listening, updates, swapsTransactions, renderedSwaps,
              effectPending, confirmedSubs, added, txPc, txMeta, txLog,
              transactionModalType, lastSetter>>

\* the state of the favoriteTokens slice (src/app/selectors/tokenList.ts)
VARIABLES
    favoriteTokens,   \* state.favoriteTokens: the set of serialized token ids
    reference,        \* the tokens favorited, as identities
    opsDone           \* how many actions the slice has reduced

favoriteVars == <<favoriteTokens, reference, opsDone>>

\* what a step of each part of the model leaves alone
nonPollerVars == <<assertionVars, gestureVars, swapVars, favoriteVars>>
nonAssertionVars == <<vars, gestureVars, swapVars, favoriteVars>>
nonGestureVars == <<vars, assertionVars, swapVars, favoriteVars>>
nonSwapVars == <<vars, assertionVars, gestureVars, favoriteVars>>
nonFavoriteVars == <<vars, assertionVars, gestureVars, swapVars>>

\* every variable of the model
allVars == <<vars, assertionVars, gestureVars, swapVars, favoriteVars>>

\* ------------------------------------------------------------ values
NoError == [type |-> "none", ms |-> 0, err |-> "none"]
Null == [tag |-> "null", x |-> 0, y |-> 0, err |-> "none"]

Outcome(tag) == [tag |-> tag, x |-> 0, y |-> 0, err |-> "none"]
Thrown(tag, e) == [tag |-> tag, x |-> 0, y |-> 0, err |-> e]
Position(x, y) == [tag |-> "pos", x |-> x, y |-> y, err |-> "none"]

\* what `await condition()` can produce
ConditionOutcomes ==
    {Outcome("true"), Outcome("false")} \cup {Thrown("throw", e) : e \in Errors}

\* what `(await (await element).getAttributes()).enabled` can produce
EnabledOutcomes ==
    {Outcome("true"), Outcome("false")} \cup {Thrown("throw", e) : e \in Errors}

\* what `await element` followed by `element.getAttributes()` can produce
SampleOutcomes ==
    {Position(x, y) : x \in Coords, y \in Coords}
        \cup {Outcome("noFrame")}
        \cup {Thrown("attrThrow", e) : e \in Errors}
        \cup {Thrown("elementReject", e) : e \in Errors}

Min(a, b) == IF a <= b THEN a ELSE b

Last(s) == s[Len(s)]

\* ------------------------------------------------ the code's expressions
\* mutant of EndTime: the deadline forgets the start of the call
EndTimeNoStart(start, t) == t

\* const endTime = startTime + timeout
EndTime(start, t) == start + t

\* mutant of ConditionTimeoutError: the message names the interval
ConditionTimeoutErrorOfInterval(t) ==
    [type |-> "conditionTimeout", ms |-> interval, err |-> "none"]

\* if (result === true)
ConditionMet(r) == r.tag = "true"

\* if (currentTime >= endTime)
DeadlineReached(currentTime, end) == currentTime >= end

\* new Error(`Condition not met within ${timeout}ms.`)
ConditionTimeoutError(t) == [type |-> "conditionTimeout", ms |-> t, err |-> "none"]

\* mutant of WaitTime: the wait is not shortened to the remaining time
WaitTimeNoShrink(itv, currentTime, end) == itv

\* mutant of WaitTime: Math.max for Math.min
WaitTimeMax(itv, currentTime, end) ==
    IF itv >= end - currentTime THEN itv ELSE end - currentTime

\* mutant of WaitTime: the remaining time is taken from the start of the call
WaitTimeFromStart(itv, currentTime, end) == Min(itv, end - startTime)

\* const remainingTime = endTime - currentTime;
\* const waitTime = Math.min(interval, remainingTime)
WaitTime(itv, currentTime, end) == Min(itv, end - currentTime)

\* mutant of PropagatedError: the exception is caught and a new error thrown
PropagatedErrorWrapped(r) == [type |-> "predicate", ms |-> 0, err |-> "none"]

\* an exception of the awaited predicate is not caught: the call rejects with it
PropagatedError(r) == [type |-> "predicate", ms |-> 0, err |-> r.err]

\* mutant of WithinTimeout: <= for <
WithinTimeoutInclusive(currentTime, start, t) == currentTime - start <= t

\* mutant of WithinTimeout: the operands of the subtraction are swapped
WithinTimeoutSwapped(currentTime, start, t) == start - currentTime < t

\* while (Date.now() - startTime < timeout)
WithinTimeout(currentTime, start, t) == currentTime - start < t

\* isEnabled = (...).enabled
Enabled(r) == r.tag = "true"

\* new Error('Element is not enabled')
NotEnabledError == [type |-> "notEnabled", ms |-> 0, err |-> "none"]

\* getPosition: the frame's {x, y}, or null when there is no numeric frame
\* or getAttributes throws
GetPosition(r) == IF r.tag = "pos" THEN r ELSE Null

\* mutant of SamePosition: only x is compared
SamePositionXOnly(last, position) ==
    /\ last # Null
    /\ position.x = last.x

\* lastPosition && position.x === lastPosition.x && position.y === lastPosition.y
SamePosition(last, position) ==
    /\ last # Null
    /\ position.x = last.x
    /\ position.y = last.y

\* mutant of StableEnough: the count is off by one
StableEnoughOffByOne(checks, count) == checks >= count - 1

\* if (stableChecks >= stableCount) return
StableEnough(checks, count) == checks >= count

\* new Error('Element did not become stable in time')
NotStableError == [type |-> "notStable", ms |-> 0, err |-> "none"]

\* ------------------------------------------------------------ event loop
\* return
Resolve == pc' = "done" /\ outcome' = "resolved" /\ error' = error

\* throw e
Reject(e) == pc' = "done" /\ outcome' = "rejected" /\ error' = e

\* mutant of AsyncSetTimeout: a wait of 0 does not suspend, the loop goes on
\* in the same task
AsyncSetTimeoutSpinOnZero(ms) ==
    IF ms = 0
      THEN /\ Len(results) < MaxEvals
           /\ pc' = "evaluating"
           /\ evalStart' = now
           /\ waits' = Append(waits, ms)
           /\ otherRan' = FALSE
           /\ UNCHANGED <<outcome, error, wakeAt, runq>>
      ELSE /\ pc' = "sleeping"
           /\ wakeAt' = now + ms
           /\ waits' = Append(waits, ms)
           /\ runq' = Append(runq, "poll")
           /\ otherRan' = FALSE
           /\ UNCHANGED <<outcome, error, evalStart>>

\* mutant of AsyncSetTimeout: the timer's promise is not awaited, the loop
\* goes on at once
AsyncSetTimeoutNotAwaited(ms) ==
    /\ Len(results) < MaxEvals
    /\ pc' = "evaluating"
    /\ evalStart' = now
    /\ wakeAt' = now + ms
    /\ waits' = Append(waits, ms)
    /\ otherRan' = FALSE
    /\ UNCHANGED <<outcome, error, runq>>

\* await asyncSetTimeout(ms, null, { ref: false }): the task suspends on a
\* timer; its continuation runs after every callback that is ready now
AsyncSetTimeout(ms) ==
    /\ pc' = "sleeping"
    /\ wakeAt' = now + ms
    /\ waits' = Append(waits, ms)
    /\ runq' = Append(runq, "poll")
    /\ otherRan' = FALSE
    /\ UNCHANGED <<outcome, error, evalStart>>

\* await new Promise((resolve) => setTimeout(resolve, ms))
SetTimeout(label, ms) ==
    /\ pc' = label
    /\ wakeAt' = now + ms
    /\ waits' = Append(waits, ms)
    /\ runq' = Append(runq, "poll")
    /\ otherRan' = FALSE
    /\ UNCHANGED <<outcome, error, evalStart>>

\* mutant of EnabledAfterLoop: the check after the loop is missing
EnabledAfterLoopNoThrow(en) == Resolve

\* if (!isEnabled) { throw new Error('Element is not enabled') }
EnabledAfterLoop(en) == IF ~en THEN Reject(NotEnabledError) ELSE Resolve

\* the call settles inside the continuation of an awaited evaluation
Settle(how) == how /\ UNCHANGED <<wakeAt, waits, runq, otherRan, evalStart>>

\* the timer's callback is at the head of the event loop's queue and is due
TimerDue == now >= wakeAt /\ Head(runq) = "poll"

\* the continuation awaits the next evaluation of the predicate / sample
Evaluate ==
    /\ Len(results) < MaxEvals
    /\ pc' = "evaluating"
    /\ evalStart' = now
    /\ UNCHANGED <<outcome, error>>

\* ---------------------------------------- Assertions (src/unnamed/part_000)
\* the keys of the objects handed to checkIfObjectContains, and of the
\* objects nested in them
Keys == {"a", "b"}
NestedKeys == {"c"}

\* the order in which `for (const key in partialObj)` visits keys
KeyOrder == <<"a", "b", "c">>

\* a value is a record: t is its type, n its number, f its own properties
NoFields == [k \in {} |-> 0]
Num(n) == [t |-> "num", n |-> n, f |-> NoFields]
NullValue == [t |-> "null", n |-> 0, f |-> NoFields]
Obj(f) == [t |-> "obj", n |-> 0, f |-> f]

Primitives == {Num(1), Num(2), NullValue}

Objects(keys, values) ==
    {Obj(f) : f \in UNION {[S -> values] : S \in SUBSET keys}}

NestedValues == Primitives \cup Objects(NestedKeys, Primitives)

TopObjects == Objects(Keys, NestedValues)

\* typeof v === 'object' && v !== null
IsObject(v) == v.t = "obj"

\* Object.prototype.hasOwnProperty.call(obj, key)
HasOwnProperty(obj, key) == key \in DOMAIN obj.f

\* a === b: primitives by type and value, objects by reference
StrictEquals(a, b, same) ==
    IF IsObject(a) /\ IsObject(b) THEN same ELSE a.t = b.t /\ a.n = b.n

\* the keys `for (const key in obj)` visits, in order
KeysOf(obj) == SelectSeq(KeyOrder, LAMBDA k : k \in DOMAIN obj.f)

\* path ? `${path}.${key}` : key
CurrentPath(path, key) == Append(path, key)

\* path || 'root'
PathOrRoot(path) == IF path = <<>> THEN <<"root">> ELSE path

\* `Missing key at "${currentPath}" in actual object`
MissingKey(path) == [kind |-> "missing", path |-> path]

\* `Value mismatch at "${path}": expected ..., got ...`
ValueMismatch(path) == [kind |-> "mismatch", path |-> path]

RECURSIVE Check(_, _, _, _, _)
RECURSIVE ForIn(_, _, _, _, _, _)
RECURSIVE ForInFirstIssueOnly(_, _, _, _, _, _)

\* lines 334-352: one iteration of the loop over the keys of partialObj,
\* as the lines it pushes to errors
CheckKey(actualObj, partialObj, key, path, dp, same) ==
    LET currentPath == CurrentPath(path, key) IN
    IF ~HasOwnProperty(actualObj, key)
      THEN <<MissingKey(currentPath)>>
      ELSE IF dp /\ IsObject(partialObj.f[key])
        THEN Check(actualObj.f[key], partialObj.f[key], currentPath, dp, same)
        ELSE IF ~StrictEquals(actualObj.f[key], partialObj.f[key],
                              currentPath \in same)
          THEN <<ValueMismatch(currentPath)>>
          ELSE <<>>

\* mutant of ForIn: the loop ends at the first key that pushed an error
ForInFirstIssueOnly(actualObj, partialObj, keys, path, dp, same) ==
    IF keys = <<>>
      THEN <<>>
      ELSE LET pushed == CheckKey(actualObj, partialObj, Head(keys), path, dp, same)
           IN IF pushed # <<>>
                THEN pushed
                ELSE ForInFirstIssueOnly(actualObj, partialObj, Tail(keys), path,
                                         dp, same)

\* lines 333-353: `for (const key in partialObj)`, every key in turn
ForIn(actualObj, partialObj, keys, path, dp, same) ==
    IF keys = <<>>
      THEN <<>>
      ELSE CheckKey(actualObj, partialObj, Head(keys), path, dp, same)
             \o ForIn(actualObj, partialObj, Tail(keys), path, dp, same)

\* lines 316-354: function check(actualObj, partialObj, path), as the lines
\* it pushes to errors
Check(actualObj, partialObj, path, dp, same) ==
    IF ~IsObject(actualObj) \/ ~IsObject(partialObj)
      THEN IF ~StrictEquals(actualObj, partialObj, FALSE)
             THEN <<ValueMismatch(PathOrRoot(path))>>
             ELSE <<>>
      ELSE ForIn(actualObj, partialObj, KeysOf(partialObj), path, dp, same)

\* the paths at which actual and partial can hold one and the same object
SharablePaths(a, p) ==
    {<<k>> : k \in {j \in DOMAIN a.f \cap DOMAIN p.f :
                      IsObject(a.f[j]) /\ a.f[j] = p.f[j]}}

\* no call of Assertions has been made
AssertionsIdle ==
    /\ elementEnabled = TRUE
    /\ enabledResult = <<>>
    /\ disabledResult = <<>>
    /\ actual = Obj(NoFields)
    /\ partial = Obj(NoFields)
    /\ deep = TRUE
    /\ sameRef = {}
    /\ containsOutcome = "pending"
    /\ containsError = <<>>

\* no call of Gestures.waitAndTap has been made
GesturesIdle ==
    /\ tapPc = "idle"
    /\ skipVisibilityCheck = FALSE
    /\ delayBeforeTap = 0
    /\ steps = <<>>
    /\ taps = 0
    /\ tapOutcome = "none"
    /\ tapFailed = "none"

\* the transactions the component can be told about
TxIds == {"tx1", "tx2"}

\* the fields of a transaction its handler reads after its first await
NoMeta ==
    [origin |-> "none", class |-> "none", ledger |-> FALSE, valueZero |-> FALSE,
     approval |-> FALSE]

\* the component is mounted, no transaction has been announced
SwapsIdle ==
    /\ listening = <<>>
    /\ updates = <<>>
    /\ swapsTransactions = {}
    /\ renderedSwaps = {}
    /\ effectPending = FALSE
    /\ confirmedSubs = <<>>
    /\ added = <<>>
    /\ txPc = [id \in TxIds |-> "none"]
    /\ txMeta = [id \in TxIds |-> NoMeta]
    /\ txLog = [id \in TxIds |-> <<>>]
    /\ transactionModalType = "undefined"
    /\ lastSetter = "none"

\* initialState of the favoriteTokens slice: new Set()
FavoritesIdle ==
    /\ favoriteTokens = {}
    /\ reference = {}
    /\ opsDone = 0

\* no call of a poller has been made
PollerIdle ==
    /\ kind = "waitUntil"
    /\ timeout = 0
    /\ interval = 0
    /\ stableCount = 1
    /\ pc = "idle"
    /\ outcome = "none"
    /\ error = NoError
    /\ startTime = 0
    /\ endTime = 0
    /\ evalStart = 0
    /\ wakeAt = 0
    /\ results = <<>>
    /\ waits = <<>>
    /\ isEnabled = FALSE
    /\ lastPosition = Null
    /\ stableChecks = 0
    /\ runq = <<"other">>
    /\ otherRan = FALSE
    /\ punctual = TRUE

Init ==
    /\ now \in StartTimes
    /\ PollerIdle
    /\ AssertionsIdle
    /\ GesturesIdle
    /\ SwapsIdle
    /\ FavoritesIdle

\* ------------------------------------------------------ Utilities.waitUntil
\* lines 143-149: the call up to the first `await condition()`
WaitUntilCall(t, i) ==
    /\ pc = "idle"
    /\ kind' = "waitUntil"
    /\ timeout' = t
    /\ interval' = i
    /\ startTime' = now
    /\ endTime' = EndTime(now, t)
    /\ Evaluate
    /\ UNCHANGED <<stableCount, now, wakeAt, results, waits, isEnabled,
                   lastPosition, stableChecks, runq, otherRan, punctual>>
    /\ UNCHANGED nonPollerVars

\* mutant of WaitUntilResume: the deadline is checked before the result
WaitUntilResumeDeadlineFirst(r) ==
    /\ pc = "evaluating"
    /\ kind = "waitUntil"
    /\ results' = Append(results, r)
    /\ punctual' = (punctual /\ now = evalStart)
    /\ IF r.tag = "throw"
         THEN Settle(Reject(PropagatedError(r)))
         ELSE IF DeadlineReached(now, endTime)
           THEN Settle(Reject(ConditionTimeoutError(timeout)))
           ELSE IF ConditionMet(r)
             THEN Settle(Resolve)
             ELSE AsyncSetTimeout(WaitTime(interval, now, endTime))
    /\ UNCHANGED <<kind, timeout, interval, stableCount, now, startTime, endTime,
                   isEnabled, lastPosition, stableChecks>>
    /\ UNCHANGED nonPollerVars

\* lines 149-165: the continuation of `await condition()` with outcome r
WaitUntilResume(r) ==
    /\ pc = "evaluating"
    /\ kind = "waitUntil"
    /\ results' = Append(results, r)
    /\ punctual' = (punctual /\ now = evalStart)
    /\ IF r.tag = "throw"
         THEN Settle(Reject(PropagatedError(r)))
         ELSE IF ConditionMet(r)
           THEN Settle(Resolve)
           ELSE IF DeadlineReached(now, endTime)
             THEN Settle(Reject(ConditionTimeoutError(timeout)))
             ELSE AsyncSetTimeout(WaitTime(interval, now, endTime))
    /\ UNCHANGED <<kind, timeout, interval, stableCount, now, startTime, endTime,
                   isEnabled, lastPosition, stableChecks>>
    /\ UNCHANGED nonPollerVars

\* lines 165 -> 149: the timer fired, the loop evaluates the condition again
WaitUntilWake ==
    /\ pc = "sleeping"
    /\ kind = "waitUntil"
    /\ TimerDue
    /\ runq' = Tail(runq)
    /\ punctual' = (punctual /\ now = wakeAt)
    /\ Evaluate
    /\ UNCHANGED <<kind, timeout, interval, stableCount, now, startTime, endTime,
                   wakeAt, results, waits, isEnabled, lastPosition, stableChecks,
                   otherRan>>
    /\ UNCHANGED nonPollerVars

\* -------------------------------------- Utilities.waitForElementToBeEnabled
\* lines 53-56 (or 53-55, 62-64): the call up to the first awaited sample
EnabledCall(t, i) ==
    /\ pc = "idle"
    /\ kind' = "enabled"
    /\ timeout' = t
    /\ interval' = i
    /\ startTime' = now
    /\ isEnabled' = FALSE
    /\ IF WithinTimeout(now, now, t)
         THEN Evaluate
         ELSE EnabledAfterLoop(isEnabled') /\ UNCHANGED evalStart
    /\ UNCHANGED <<stableCount, now, endTime, wakeAt, results, waits,
                   lastPosition, stableChecks, runq, otherRan, punctual>>
    /\ UNCHANGED nonPollerVars

\* mutant of EnabledResume: the loop does not break on an enabled sample
EnabledResumeNoBreak(r) ==
    /\ pc = "evaluating"
    /\ kind = "enabled"
    /\ results' = Append(results, r)
    /\ punctual' = (punctual /\ now = evalStart)
    /\ IF r.tag = "throw"
         THEN Settle(Reject(PropagatedError(r))) /\ UNCHANGED isEnabled
         ELSE /\ isEnabled' = Enabled(r)
              /\ SetTimeout("sleeping", interval)
    /\ UNCHANGED <<kind, timeout, interval, stableCount, now, startTime, endTime,
                   lastPosition, stableChecks>>
    /\ UNCHANGED nonPollerVars

\* lines 56-60 (or 56-58, 62-65): the continuation of the awaited sample r
EnabledResume(r) ==
    /\ pc = "evaluating"
    /\ kind = "enabled"
    /\ results' = Append(results, r)
    /\ punctual' = (punctual /\ now = evalStart)
    /\ IF r.tag = "throw"
         THEN Settle(Reject(PropagatedError(r))) /\ UNCHANGED isEnabled
         ELSE /\ isEnabled' = Enabled(r)
              /\ IF isEnabled'
                   THEN Settle(EnabledAfterLoop(isEnabled'))
                   ELSE SetTimeout("sleeping", interval)
    /\ UNCHANGED <<kind, timeout, interval, stableCount, now, startTime, endTime,
                   lastPosition, stableChecks>>
    /\ UNCHANGED nonPollerVars

\* lines 60 -> 55: the timer fired; the loop samples again or ends (62-64)
EnabledWake ==
    /\ pc = "sleeping"
    /\ kind = "enabled"
    /\ TimerDue
    /\ runq' = Tail(runq)
    /\ punctual' = (punctual /\ now = wakeAt)
    /\ IF WithinTimeout(now, startTime, timeout)
         THEN Evaluate
         ELSE EnabledAfterLoop(isEnabled) /\ UNCHANGED evalStart
    /\ UNCHANGED <<kind, timeout, interval, stableCount, now, startTime, endTime,
                   wakeAt, results, waits, isEnabled, lastPosition, stableChecks,
                   otherRan>>
    /\ UNCHANGED nonPollerVars

\* ------------------------------------- Utilities.waitForElementToStopMoving
\* lines 77-104 (or 77-101, 126): the call up to the first awaited sample
StableCall(t, i, c) ==
    /\ pc = "idle"
    /\ kind' = "stable"
    /\ timeout' = t
    /\ interval' = i
    /\ stableCount' = c
    /\ lastPosition' = Null
    /\ stableChecks' = 0
    /\ startTime' = now
    /\ IF WithinTimeout(now, now, t)
         THEN Evaluate
         ELSE Reject(NotStableError) /\ UNCHANGED evalStart
    /\ UNCHANGED <<now, endTime, wakeAt, results, waits, isEnabled, runq,
                   otherRan, punctual>>
    /\ UNCHANGED nonPollerVars

\* lines 102-123: the continuation of `await element` and getPosition(el)
StableResume(r) ==
    /\ pc = "evaluating"
    /\ kind = "stable"
    /\ results' = Append(results, r)
    /\ punctual' = (punctual /\ now = evalStart)
    /\ IF r.tag = "elementReject"
         THEN /\ Settle(Reject(PropagatedError(r)))
              /\ UNCHANGED <<lastPosition, stableChecks>>
         ELSE LET position == GetPosition(r) IN
              IF position = Null
                THEN /\ SetTimeout("fallback", fallBackTimeout)
                     /\ UNCHANGED <<lastPosition, stableChecks>>
                ELSE IF SamePosition(lastPosition, position)
                  THEN /\ stableChecks' = stableChecks + 1
                       /\ lastPosition' = lastPosition
                       /\ IF StableEnough(stableChecks', stableCount)
                            THEN Settle(Resolve)
                            ELSE SetTimeout("sleeping", interval)
                  ELSE /\ lastPosition' = position
                       /\ stableChecks' = 1
                       /\ SetTimeout("sleeping", interval)
    /\ UNCHANGED <<kind, timeout, interval, stableCount, now, startTime, endTime,
                   isEnabled>>
    /\ UNCHANGED nonPollerVars

\* mutant of StableFallbackWake: the return after the fallback delay is
\* missing, the loop goes on
StableFallbackWakeContinues ==
    /\ pc = "fallback"
    /\ kind = "stable"
    /\ TimerDue
    /\ runq' = Tail(runq)
    /\ punctual' = (punctual /\ now = wakeAt)
    /\ IF WithinTimeout(now, startTime, timeout)
         THEN Evaluate
         ELSE Reject(NotStableError) /\ UNCHANGED evalStart
    /\ UNCHANGED <<kind, timeout, interval, stableCount, now, startTime, endTime,
                   wakeAt, results, waits, isEnabled, lastPosition, stableChecks,
                   otherRan>>
    /\ UNCHANGED nonPollerVars

\* lines 107-108: the fallback timer fired; return
StableFallbackWake ==
    /\ pc = "fallback"
    /\ kind = "stable"
    /\ TimerDue
    /\ runq' = Tail(runq)
    /\ punctual' = (punctual /\ now = wakeAt)
    /\ Resolve
    /\ UNCHANGED <<kind, timeout, interval, stableCount, now, startTime, endTime,
                   evalStart, wakeAt, results, waits, isEnabled, lastPosition,
                   stableChecks, otherRan>>
    /\ UNCHANGED nonPollerVars

\* lines 123 -> 101: the timer fired; the loop samples again or throws (126)
StableWake ==
    /\ pc = "sleeping"
    /\ kind = "stable"
    /\ TimerDue
    /\ runq' = Tail(runq)
    /\ punctual' = (punctual /\ now = wakeAt)
    /\ IF WithinTimeout(now, startTime, timeout)
         THEN Evaluate
         ELSE Reject(NotStableError) /\ UNCHANGED evalStart
    /\ UNCHANGED <<kind, timeout, interval, stableCount, now, startTime, endTime,
                   wakeAt, results, waits, isEnabled, lastPosition, stableChecks,
                   otherRan>>
    /\ UNCHANGED nonPollerVars

\* ------------------------------------------------------------ environment
\* the clock advances while an evaluation is in flight (at most MaxLatency)
\* and while a timer is pending (at most MaxLate past its instant)
Tick ==
    /\ \/ pc = "evaluating" /\ now - evalStart < MaxLatency
       \/ pc \in {"sleeping", "fallback"} /\ now < wakeAt + MaxLate
    /\ now' = now + 1
    /\ UNCHANGED <<kind, timeout, interval, stableCount, pc, outcome, error,
                   startTime, endTime, evalStart, wakeAt, results, waits,
                   isEnabled, lastPosition, stableChecks, runq, otherRan,
                   punctual>>
    /\ UNCHANGED nonPollerVars

\* the event loop runs the other task, which stays ready and queues again
OtherRun ==
    /\ pc \in {"evaluating", "sleeping", "fallback"}
    /\ Head(runq) = "other"
    /\ runq' = Append(Tail(runq), "other")
    /\ otherRan' = TRUE
    /\ UNCHANGED <<kind, timeout, interval, stableCount, now, pc, outcome, error,
                   startTime, endTime, evalStart, wakeAt, results, waits,
                   isEnabled, lastPosition, stableChecks, punctual>>
    /\ UNCHANGED nonPollerVars

Next ==
    \/ \E t \in 0..MaxTimeout, i \in 0..MaxInterval : WaitUntilCall(t, i)
    \/ \E r \in ConditionOutcomes : WaitUntilResume(r)
    \/ WaitUntilWake
    \/ \E t \in 0..MaxTimeout, i \in 0..MaxInterval : EnabledCall(t, i)
    \/ \E r \in EnabledOutcomes : EnabledResume(r)
    \/ EnabledWake
    \/ \E t \in 0..MaxTimeout, i \in 0..MaxInterval, c \in 1..MaxStable :
          StableCall(t, i, c)
    \/ \E r \in SampleOutcomes : StableResume(r)
    \/ StableFallbackWake
    \/ StableWake
    \/ Tick
    \/ OtherRun

Spec == Init /\ [][Next]_allVars

\* the clock advances, every awaited evaluation completes, and the event loop
\* runs every callback that is ready and every timer that is due
Fairness ==
    /\ WF_vars(Tick)
    /\ WF_vars(OtherRun)
    /\ WF_vars(\E r \in ConditionOutcomes : WaitUntilResume(r))
    /\ WF_vars(\E r \in EnabledOutcomes : EnabledResume(r))
    /\ WF_vars(\E r \in SampleOutcomes : StableResume(r))
    /\ WF_vars(WaitUntilWake)
    /\ WF_vars(EnabledWake)
    /\ WF_vars(StableWake)
    /\ WF_vars(StableFallbackWake)

LiveSpec == Init /\ [][Next]_allVars /\ Fairness

\* ------------------------------------------------ Assertions, its calls
\* (await element).getAttributes()
GetAttributes == [enabled |-> elementEnabled]

\* lines 426-430: Assertions.checkIfEnabled(element)
CheckIfEnabled ==
    /\ enabledResult' = <<GetAttributes.enabled>>
    /\ UNCHANGED <<elementEnabled, disabledResult, actual, partial, deep,
                   sameRef, containsOutcome, containsError>>
    /\ UNCHANGED nonAssertionVars

\* lines 437-441: Assertions.checkIfDisabled(element)
CheckIfDisabled ==
    /\ disabledResult' = <<GetAttributes.enabled>>
    /\ UNCHANGED <<elementEnabled, enabledResult, actual, partial, deep,
                   sameRef, containsOutcome, containsError>>
    /\ UNCHANGED nonAssertionVars

\* lines 308-366: Assertions.checkIfObjectContains(actual, partial, deep)
CheckIfObjectContains ==
    /\ containsOutcome = "pending"
    /\ LET errors == Check(actual, partial, <<>>, deep, sameRef) IN
         IF Len(errors) > 0
           THEN /\ containsOutcome' = "rejected"
                /\ containsError' = errors
           ELSE /\ containsOutcome' = "resolved"
                /\ containsError' = <<>>
    /\ UNCHANGED <<elementEnabled, enabledResult, disabledResult, actual,
                   partial, deep, sameRef>>
    /\ UNCHANGED nonAssertionVars

\* an element that is enabled or disabled, and every pair of objects over
\* Keys and NestedKeys, before any call of Assertions
InitAssertions ==
    /\ now = 0
    /\ PollerIdle
    /\ elementEnabled \in BOOLEAN
    /\ enabledResult = <<>>
    /\ disabledResult = <<>>
    /\ actual \in TopObjects
    /\ partial \in TopObjects
    /\ deep \in BOOLEAN
    /\ sameRef \in SUBSET SharablePaths(actual, partial)
    /\ containsOutcome = "pending"
    /\ containsError = <<>>
    /\ GesturesIdle
    /\ SwapsIdle
    /\ FavoritesIdle

NextAssertions ==
    \/ CheckIfEnabled
    \/ CheckIfDisabled
    \/ CheckIfObjectContains

SpecAssertions == InitAssertions /\ [][NextAssertions]_allVars

\* ------------------------------------------------- Gestures.waitAndTap
\* the values of option delayBeforeTap
Delays == {0, 1}

\* the order of the steps of waitAndTap
StepOrder(skip) ==
    IF skip THEN <<"delay", "enabled", "tap">>
            ELSE <<"visibility", "delay", "enabled", "tap">>

\* waitAndTap rejects with the failure of the step it awaited
TapReject(step) ==
    /\ tapPc' = "done"
    /\ tapOutcome' = "rejected"
    /\ tapFailed' = step

\* lines 27-31 and 101: await this.delayBeforeAction(delayBeforeTap), a timer
\* only if delayMs > 0
DelayBeforeAction(done, delayMs) ==
    /\ steps' = Append(done, "delay")
    /\ tapPc' = IF delayMs > 0 THEN "delaying" ELSE "delayed"

\* lines 85-94: the call up to `await element`
WaitAndTapCall(skip, d) ==
    /\ tapPc = "idle"
    /\ skipVisibilityCheck' = skip
    /\ delayBeforeTap' = d
    /\ tapPc' = "element"
    /\ UNCHANGED <<steps, taps, tapOutcome, tapFailed>>
    /\ UNCHANGED nonGestureVars

\* lines 94-101: `await element` settled; the visibility wait unless skipped,
\* else the delay
WaitAndTapElement(ok) ==
    /\ tapPc = "element"
    /\ IF ~ok
         THEN TapReject("element") /\ UNCHANGED steps
         ELSE IF ~skipVisibilityCheck
           THEN /\ tapPc' = "visibility"
                /\ steps' = Append(steps, "visibility")
                /\ UNCHANGED <<tapOutcome, tapFailed>>
           ELSE /\ DelayBeforeAction(steps, delayBeforeTap)
                /\ UNCHANGED <<tapOutcome, tapFailed>>
    /\ UNCHANGED <<skipVisibilityCheck, delayBeforeTap, taps>>
    /\ UNCHANGED nonGestureVars

\* lines 95-101: waitFor(elementToTap)...withTimeout(timeout) settled
WaitAndTapVisible(ok) ==
    /\ tapPc = "visibility"
    /\ IF ~ok
         THEN TapReject("visibility") /\ UNCHANGED steps
         ELSE /\ DelayBeforeAction(steps, delayBeforeTap)
              /\ UNCHANGED <<tapOutcome, tapFailed>>
    /\ UNCHANGED <<skipVisibilityCheck, delayBeforeTap, taps>>
    /\ UNCHANGED nonGestureVars

\* line 29: the timer of delayBeforeAction fired
WaitAndTapDelayWake ==
    /\ tapPc = "delaying"
    /\ tapPc' = "delayed"
    /\ UNCHANGED <<skipVisibilityCheck, delayBeforeTap, steps, taps, tapOutcome,
                   tapFailed>>
    /\ UNCHANGED nonGestureVars

\* line 102: Utilities.waitForElementToBeEnabled(elementToTap) is called with
\* its default timeout and interval (3500 ms and 100 ms: a positive timeout
\* and a shorter interval at the granularity of the clock)
WaitAndTapEnables(t, i) ==
    /\ tapPc = "delayed"
    /\ i < t
    /\ EnabledCall(t, i)

\* mutant of EnabledWaitResolved: the failure of the enabled wait is ignored
EnabledWaitIgnored == TRUE

\* `await Utilities.waitForElementToBeEnabled(...)` did not throw
EnabledWaitResolved == outcome = "resolved"

\* lines 102-103: waitForElementToBeEnabled settled; tap() is issued if it
\* resolved
WaitAndTapEnabled ==
    /\ tapPc = "delayed"
    /\ kind = "enabled"
    /\ pc = "done"
    /\ IF EnabledWaitResolved
         THEN /\ steps' = steps \o <<"enabled", "tap">>
              /\ taps' = taps + 1
              /\ tapPc' = "tapping"
              /\ UNCHANGED <<tapOutcome, tapFailed>>
         ELSE /\ steps' = Append(steps, "enabled")
              /\ TapReject("enabled")
              /\ UNCHANGED taps
    /\ UNCHANGED <<skipVisibilityCheck, delayBeforeTap>>
    /\ UNCHANGED nonGestureVars

\* lines 103-104: tap() settled
WaitAndTapTapped(ok) ==
    /\ tapPc = "tapping"
    /\ IF ok
         THEN /\ tapPc' = "done"
              /\ tapOutcome' = "resolved"
              /\ UNCHANGED tapFailed
         ELSE TapReject("tap")
    /\ UNCHANGED <<skipVisibilityCheck, delayBeforeTap, steps, taps>>
    /\ UNCHANGED nonGestureVars

NextGestures ==
    \/ \E skip \in BOOLEAN, d \in Delays : WaitAndTapCall(skip, d)
    \/ \E ok \in BOOLEAN : WaitAndTapElement(ok)
    \/ \E ok \in BOOLEAN : WaitAndTapVisible(ok)
    \/ WaitAndTapDelayWake
    \/ \E t \in 1..MaxTimeout, i \in 0..MaxInterval : WaitAndTapEnables(t, i)
    \/ \E r \in EnabledOutcomes : EnabledResume(r)
    \/ EnabledWake
    \/ Tick
    \/ OtherRun
    \/ WaitAndTapEnabled
    \/ \E ok \in BOOLEAN : WaitAndTapTapped(ok)

SpecGestures == Init /\ [][NextGestures]_allVars

\* ------------------------------------- useSwapConfirmedEvent (part_001)
\* a queued state update: an updater that appends id, or a value to set
AppendUpdate(id) == [op |-> "append", id |-> id, value |-> <<>>]
SetUpdate(value) == [op |-> "set", id |-> "", value |-> value]

\* the state after one queued update
ApplyUpdate(state, u) ==
    IF u.op = "append" THEN Append(state, u.id) ELSE u.value

\* the state after the queued updates, applied in the order they were queued
RECURSIVE ApplyUpdates(_, _)
ApplyUpdates(state, us) ==
    IF us = <<>> THEN state
                 ELSE ApplyUpdates(ApplyUpdate(state, Head(us)), Tail(us))

\* lines 174-179: addTransactionMetaIdForListening(txMetaId) queues the
\* updater (ids) => [...ids, txMetaId]
AddTransactionMetaIdForListening(id) ==
    /\ updates' = Append(updates, AppendUpdate(id))
    /\ added' = Append(added, id)

\* the store gets an entry swapsTransactions[id]
SwapsUpdate(id) ==
    /\ id \notin swapsTransactions
    /\ swapsTransactions' = swapsTransactions \cup {id}
    /\ UNCHANGED <<listening, updates, renderedSwaps, effectPending,
                   confirmedSubs, added, txPc, txMeta, txLog,
                   transactionModalType, lastSetter>>
    /\ UNCHANGED nonSwapVars

\* lines 171-182: the component renders again after a state update or a
\* change of the store (the effect of the previous render has run by then);
\* its dependencies changed, so its effect is scheduled
Render ==
    /\ ~effectPending
    /\ updates # <<>> \/ swapsTransactions # renderedSwaps
    /\ listening' = ApplyUpdates(listening, updates)
    /\ updates' = <<>>
    /\ renderedSwaps' = swapsTransactions
    /\ effectPending' = TRUE
    /\ UNCHANGED <<swapsTransactions, confirmedSubs, added, txPc, txMeta, txLog,
                   transactionModalType, lastSetter>>
    /\ UNCHANGED nonSwapVars

\* lines 182-205: the effect runs with the state and the swapsTransactions
\* of its render
RunEffect ==
    /\ effectPending
    /\ effectPending' = FALSE
    /\ IF listening # <<>> /\ Head(listening) \in renderedSwaps
         THEN /\ confirmedSubs' = Append(confirmedSubs, Head(listening))
              /\ updates' = Append(updates, SetUpdate(Tail(listening)))
         ELSE UNCHANGED <<confirmedSubs, updates>>
    /\ UNCHANGED <<listening, swapsTransactions, renderedSwaps, added, txPc,
                   txMeta, txLog, transactionModalType, lastSetter>>
    /\ UNCHANGED nonSwapVars

\* ------------------------------------------ RootRPCMethodsUI (part_001)
Origins == {"MMM", "dapp"}
Classes == {"swap", "bridge", "other"}

Log(id, events) == txLog' = [txLog EXCEPT ![id] = @ \o events]

Goto(id, where) == txPc' = [txPc EXCEPT ![id] = where]

\* mutant of IsAutoSigned: bridge transactions are not auto-signed
IsAutoSignedSwapOnly(c) == c = "swap"

\* lines 474-482: getIsSwapApproveOrSwapTransaction(...) ||
\* getIsBridgeTransaction(transactionMeta)
IsAutoSigned(c) == c \in {"swap", "bridge"}

\* mutant of SigningRoute: Ledger accounts are not told apart
SigningRouteAlwaysAccept(isLedgerAccount) == "accept"

\* lines 420-434: if (isLedgerAccount) ... else ...
SigningRoute(isLedgerAccount) == IF isLedgerAccount THEN "ledger" ELSE "accept"

\* lines 435-453: the catch of autoSign, by the message of the error
Caught(canceled) == IF canceled THEN "trackCanceled" ELSE "alert"

\* lines 573-577: Transaction for an approval with zero value, else Dapp
ModalTypeFor(meta) ==
    IF meta.approval /\ meta.valueZero THEN "Transaction" ELSE "Dapp"

\* the fields of the transaction that its handler goes on to read
Stored(o, c, l, z, a) ==
    IF o = "MMM"
      THEN [NoMeta EXCEPT !.origin = o, !.class = c]
      ELSE IF IsAutoSigned(c)
        THEN [NoMeta EXCEPT !.origin = o, !.class = c, !.ledger = l]
        ELSE [NoMeta EXCEPT !.origin = o, !.class = c, !.valueZero = z,
                            !.approval = a]

\* lines 381-412: autoSign up to `await KeyringController.resetQRKeyringState()`
AutoSign(id) ==
    /\ Log(id, <<"subscribeFinished", "queued">>)
    /\ AddTransactionMetaIdForListening(id)
    /\ Goto(id, "resetting")

\* lines 548-577: one of the two dispatches, then setTransactionModalType
DispatchAndShow(id, dispatched, meta) ==
    /\ Log(id, <<dispatched, ModalTypeFor(meta)>>)
    /\ transactionModalType' = ModalTypeFor(meta)
    /\ lastSetter' = "onUnapprovedTransaction"
    /\ Goto(id, "done")

\* lines 466-499 (and on to 577 without an await): onUnapprovedTransaction
\* of a transaction with origin o, class c, from a Ledger account or not (l),
\* zero or absent value (z), call data and recipient (d), approval data (a)
OnUnapprovedTransaction(id, o, c, l, z, d, a) ==
    /\ txPc[id] = "none"
    /\ a => d
    /\ txMeta' = [txMeta EXCEPT ![id] = Stored(o, c, l, z, a)]
    /\ IF o = "MMM"
         THEN /\ Goto(id, "done")
              /\ UNCHANGED <<txLog, updates, added, transactionModalType,
                             lastSetter>>
         ELSE IF IsAutoSigned(c)
           THEN /\ AutoSign(id)
                /\ UNCHANGED <<transactionModalType, lastSetter>>
           ELSE IF z /\ d
             THEN /\ Goto(id, "methodData")
                  /\ UNCHANGED <<txLog, updates, added, transactionModalType,
                                 lastSetter>>
             ELSE /\ DispatchAndShow(id, "setEtherTransaction",
                                     Stored(o, c, l, z, a))
                  /\ UNCHANGED <<updates, added>>
    /\ UNCHANGED <<listening, swapsTransactions, renderedSwaps, effectPending,
                   confirmedSubs>>
    /\ UNCHANGED nonSwapVars

\* lines 499-577: `await getMethodData(...)` settled: a token transfer whose
\* asset is known, one whose asset is looked up, or another call
MethodData(id, transfer, assetKnown) ==
    /\ txPc[id] = "methodData"
    /\ IF ~transfer
         THEN DispatchAndShow(id, "setEtherTransaction", txMeta[id])
         ELSE IF assetKnown
           THEN DispatchAndShow(id, "setTransactionObject", txMeta[id])
           ELSE /\ Goto(id, "assetLookup")
                /\ Log(id, <<"getERC20TokenDecimals">>)
                /\ UNCHANGED <<transactionModalType, lastSetter>>
    /\ UNCHANGED <<listening, updates, swapsTransactions, renderedSwaps,
                   effectPending, confirmedSubs, added, txMeta>>
    /\ UNCHANGED nonSwapVars

\* lines 514-577: the lookup of decimals and symbol settled; a failure is
\* caught and replaced by a default asset
AssetLookup(id, ok) ==
    /\ txPc[id] = "assetLookup"
    /\ DispatchAndShow(id, "setTransactionObject", txMeta[id])
    /\ UNCHANGED <<listening, updates, swapsTransactions, renderedSwaps,
                   effectPending, confirmedSubs, added, txMeta>>
    /\ UNCHANGED nonSwapVars

\* lines 412-453: resetQRKeyringState settled
AutoSignReset(id, ok, canceled) ==
    /\ txPc[id] = "resetting"
    /\ IF ~ok
         THEN Log(id, <<Caught(canceled)>>) /\ Goto(id, "done")
         ELSE IF SigningRoute(txMeta[id].ledger) = "ledger"
           THEN Goto(id, "deviceId") /\ UNCHANGED txLog
           ELSE Log(id, <<"acceptPendingApproval">>) /\ Goto(id, "done")
    /\ UNCHANGED <<listening, updates, swapsTransactions, renderedSwaps,
                   effectPending, confirmedSubs, added, txMeta,
                   transactionModalType, lastSetter>>
    /\ UNCHANGED nonSwapVars

\* lines 421-453: getDeviceId settled
AutoSignDeviceId(id, ok, canceled) ==
    /\ txPc[id] = "deviceId"
    /\ IF ok THEN Log(id, <<"navigate">>) ELSE Log(id, <<Caught(canceled)>>)
    /\ Goto(id, "done")
    /\ UNCHANGED <<listening, updates, swapsTransactions, renderedSwaps,
                   effectPending, confirmedSubs, added, txMeta,
                   transactionModalType, lastSetter>>
    /\ UNCHANGED nonSwapVars

\* lines 590-592: onTransactionComplete
OnTransactionComplete ==
    /\ transactionModalType' = "undefined"
    /\ lastSetter' = "onTransactionComplete"
    /\ UNCHANGED <<listening, updates, swapsTransactions, renderedSwaps,
                   effectPending, confirmedSubs, added, txPc, txMeta, txLog>>
    /\ UNCHANGED nonSwapVars

NextSwaps ==
    \/ \E id \in TxIds, o \in Origins, c \in Classes, l \in BOOLEAN,
          z \in BOOLEAN, d \in BOOLEAN, a \in BOOLEAN :
            OnUnapprovedTransaction(id, o, c, l, z, d, a)
    \/ \E id \in TxIds, transfer \in BOOLEAN, assetKnown \in BOOLEAN :
          MethodData(id, transfer, assetKnown)
    \/ \E id \in TxIds, ok \in BOOLEAN : AssetLookup(id, ok)
    \/ \E id \in TxIds, ok \in BOOLEAN, canceled \in BOOLEAN :
          AutoSignReset(id, ok, canceled)
    \/ \E id \in TxIds, ok \in BOOLEAN, canceled \in BOOLEAN :
          AutoSignDeviceId(id, ok, canceled)
    \/ OnTransactionComplete
    \/ \E id \in TxIds : SwapsUpdate(id)
    \/ Render
    \/ RunEffect

\* the component is mounted and nothing else is going on
InitSwaps ==
    /\ now = 0
    /\ PollerIdle
    /\ AssertionsIdle
    /\ GesturesIdle
    /\ SwapsIdle
    /\ FavoritesIdle

SpecSwaps == InitSwaps /\ [][NextSwaps]_allVars

\* every scheduled render and every scheduled effect runs
FairnessSwaps == WF_allVars(Render) /\ WF_allVars(RunEffect)

LiveSpecSwaps == InitSwaps /\ [][NextSwaps]_allVars /\ FairnessSwaps

\* -------------------------- favoriteTokens slice (app/selectors/tokenList.ts)
\* a string is the sequence of its parts: the characters of an address or a
\* chain id, the separator "-", and the words "staked" and "unstaked"
Separator == "-"

\* the addresses and chain ids of the tokens
Fields == {<<"a">>, <<"b">>, <<"a", Separator, "a">>}

\* TokenIdentifier: { address, chainId, isStaked }
Tokens == [address : Fields, chainId : Fields, isStaked : BOOLEAN]

\* lines 108-111: `${token.address}-${token.chainId}-${staked}`
SerializeTokenId(token) ==
    token.address \o <<Separator>> \o token.chainId \o <<Separator>>
      \o <<IF token.isStaked THEN "staked" ELSE "unstaked">>

\* serialized.split('-')
RECURSIVE Split(_)
Split(str) ==
    IF str = <<>> THEN << <<>> >>
    ELSE LET rest == Split(Tail(str)) IN
         IF Head(str) = Separator
           THEN << <<>> >> \o rest
           ELSE << <<Head(str)>> \o Head(rest) >> \o Tail(rest)

\* parts.join('-')
RECURSIVE Join(_)
Join(parts) ==
    IF parts = <<>> THEN <<>>
    ELSE IF Len(parts) = 1 THEN Head(parts)
    ELSE Head(parts) \o <<Separator>> \o Join(Tail(parts))

\* lines 113-119: deserializeTokenId
DeserializeTokenId(serialized) ==
    LET parts == Split(serialized) IN
    [address |-> Join(SubSeq(parts, 1, Len(parts) - 2)),
     chainId |-> parts[Len(parts) - 1],
     isStaked |-> (parts[Len(parts)] = <<"staked">>)]

\* lines 182-188: selectIsFavoriteToken(state, token)
SelectIsFavoriteToken(token) == SerializeTokenId(token) \in favoriteTokens

\* lines 190-193: selectFavoriteTokensList, as the set of its entries
SelectFavoriteTokensList == {DeserializeTokenId(id) : id \in favoriteTokens}

\* lines 195-198: selectFavoriteTokensCount
SelectFavoriteTokensCount == Cardinality(favoriteTokens)

\* the slice reduces one more action
Reduced ==
    /\ opsDone < MaxOps
    /\ opsDone' = opsDone + 1
    /\ UNCHANGED nonFavoriteVars

\* lines 127-130: addFavoriteToken(token)
AddFavoriteToken(token) ==
    /\ Reduced
    /\ favoriteTokens' = favoriteTokens \cup {SerializeTokenId(token)}
    /\ reference' = reference \cup {token}

\* lines 131-134: removeFavoriteToken(token)
RemoveFavoriteToken(token) ==
    /\ Reduced
    /\ favoriteTokens' = favoriteTokens \ {SerializeTokenId(token)}
    /\ reference' = reference \ {token}

\* lines 135-142: toggleFavoriteToken(token)
ToggleFavoriteToken(token) ==
    /\ Reduced
    /\ favoriteTokens' =
         IF SerializeTokenId(token) \in favoriteTokens
           THEN favoriteTokens \ {SerializeTokenId(token)}
           ELSE favoriteTokens \cup {SerializeTokenId(token)}
    /\ reference' =
         IF token \in reference THEN reference \ {token}
                                ELSE reference \cup {token}

\* lines 143-145: clearFavoriteTokens()
ClearFavoriteTokens ==
    /\ Reduced
    /\ favoriteTokens' = {}
    /\ reference' = {}

\* lines 146-148: setFavoriteTokensFromArray(ids), ids the serialized ids of
\* the tokens of list
SetFavoriteTokensFromArray(list) ==
    /\ Reduced
    /\ favoriteTokens' = {SerializeTokenId(list[k]) : k \in 1..Len(list)}
    /\ reference' = {list[k] : k \in 1..Len(list)}

\* the arrays handed to setFavoriteTokensFromArray
TokenLists == {<<>>} \cup {<<t>> : t \in Tokens}
                \cup {<<t, u>> : t \in Tokens, u \in Tokens}

NextFavorites ==
    \/ \E token \in Tokens : AddFavoriteToken(token)
    \/ \E token \in Tokens : RemoveFavoriteToken(token)
    \/ \E token \in Tokens : ToggleFavoriteToken(token)
    \/ ClearFavoriteTokens
    \/ \E list \in TokenLists : SetFavoriteTokensFromArray(list)

\* the store holds initialState and nothing else is going on
InitFavorites ==
    /\ now = 0
    /\ PollerIdle
    /\ AssertionsIdle
    /\ GesturesIdle
    /\ SwapsIdle
    /\ FavoritesIdle

SpecFavorites == InitFavorites /\ [][NextFavorites]_allVars

\* ================================================================ claims
Elapsed == now - startTime

AllFalse(rs) == \A k \in 1..Len(rs) : rs[k].tag = "false"

\* the time the last completed evaluation took
LastLatency == now - evalStart

\* how long after its instant the timer before the last evaluation fired
LastLateness == IF waits = <<>> THEN 0 ELSE evalStart - wakeAt

\* the call has ended and every evaluation of the condition returned false
WaitUntilEndedAllFalse ==
    kind = "waitUntil" /\ pc = "done" /\ AllFalse(results)

\* C1 as stated: if the condition returns false on every call, waitUntil
\* throws its timeout error after at least timeout and at most
\* timeout + interval.
C1_Original ==
    WaitUntilEndedAllFalse =>
        /\ outcome = "rejected"
        /\ error.type = "conditionTimeout"
        /\ Elapsed >= timeout
        /\ Elapsed <= timeout + interval

\* C1 amended: if the condition returns false on every call, waitUntil
\* throws its timeout error after at least timeout and at most timeout plus
\* the latency of the last condition evaluation plus the lateness of the last
\* timer.
C1_TimeoutWindow ==
    WaitUntilEndedAllFalse =>
        /\ outcome = "rejected"
        /\ error.type = "conditionTimeout"
        /\ Elapsed >= timeout
        /\ Elapsed <= timeout + LastLatency + LastLateness

C1_Witness ==
    /\ WaitUntilEndedAllFalse
    /\ Len(results) >= 2
    /\ timeout >= 1
    /\ error.type = "conditionTimeout"
    /\ LastLatency >= 1
    /\ Elapsed > timeout + interval

\* C2: if the condition returns true on its first call, waitUntil resolves
\* after exactly one evaluation and without arming any timer, for every
\* interval and every timeout >= 0.
C2_FirstTrueResolves ==
    (kind = "waitUntil" /\ Len(results) >= 1 /\ results[1].tag = "true") =>
        /\ pc = "done"
        /\ outcome = "resolved"
        /\ Len(results) = 1
        /\ waits = <<>>

C2_Witness ==
    /\ kind = "waitUntil"
    /\ timeout = 0
    /\ Len(results) = 1
    /\ results[1].tag = "true"
    /\ outcome = "resolved"

\* the condition returned false on its first N-1 calls and true on the N-th
TrueOnNth(n) ==
    /\ Len(results) = n
    /\ results[n].tag = "true"
    /\ AllFalse(SubSeq(results, 1, n - 1))

\* what C3 promises of a call whose condition is false on the first N-1
\* calls and true on the N-th, N*interval < timeout: no timeout error before
\* the N-th call, and a resolution after N evaluations and N-1 suspensions
\* of length interval, not later than timeout
C3_Promise ==
    /\ (/\ WaitUntilEndedAllFalse
        /\ error.type = "conditionTimeout")
            => ~((Len(results) + 1) * interval < timeout)
    /\ \A n \in 1..MaxEvals :
          (kind = "waitUntil" /\ TrueOnNth(n) /\ n * interval < timeout) =>
              /\ pc = "done"
              /\ outcome = "resolved"
              /\ Len(waits) = n - 1
              /\ \A k \in 1..Len(waits) : waits[k] = interval
              /\ Elapsed <= timeout

\* C3 as stated: if the condition returns false on its first N-1 calls and
\* true on the N-th, with N*interval < timeout, waitUntil resolves (never
\* throws the timeout error) after exactly N evaluations and N-1 suspensions
\* of length interval, and not later than timeout.
C3_Original == C3_Promise

\* C3 amended: the same, provided every condition evaluation takes no time
\* and every timer fires at its instant.
C3_ResolvesOnNth == punctual => C3_Promise

C3_Witness ==
    /\ kind = "waitUntil"
    /\ punctual
    /\ TrueOnNth(2)
    /\ interval = 1
    /\ timeout = 3
    /\ waits = <<1>>
    /\ outcome = "resolved"
    /\ Elapsed = 1

\* C4: waitUntil with interval = 0 yields to the event loop between two
\* consecutive condition evaluations: when an evaluation after the first is
\* started, the other ready task has run since the previous one ended.
C4_YieldsOnZeroInterval ==
    (kind = "waitUntil" /\ interval = 0 /\ pc = "evaluating" /\ Len(results) >= 1)
        => otherRan

C4_Witness ==
    /\ kind = "waitUntil"
    /\ interval = 0
    /\ pc = "evaluating"
    /\ Len(results) = 2
    /\ Last(waits) = 0
    /\ otherRan

\* C5: if the predicate throws on any evaluation, waitUntil and
\* waitForElementToBeEnabled reject with that same error, not with a timeout
\* or not-enabled error, and the predicate is not evaluated again.
C5_PredicateErrorPropagates ==
    \A k \in 1..Len(results) :
        (kind \in {"waitUntil", "enabled"} /\ results[k].tag = "throw") =>
            /\ k = Len(results)
            /\ pc = "done"
            /\ outcome = "rejected"
            /\ error.type = "predicate"
            /\ error.err = results[k].err

C5_Witness ==
    /\ kind = "enabled"
    /\ Len(results) = 2
    /\ results[2].tag = "throw"
    /\ results[2].err = "E2"
    /\ error.err = "E2"

\* C6: waitUntil throws its timeout error only when the most recent condition
\* evaluation returned false and the clock is at or past
\* endTime = start + timeout; the error carries the configured timeout, and
\* no evaluation is in flight once it is thrown.
C6_TimeoutErrorOnlyPastDeadline ==
    (kind = "waitUntil" /\ error.type = "conditionTimeout") =>
        /\ results # <<>>
        /\ Last(results).tag = "false"
        /\ endTime = startTime + timeout
        /\ now >= startTime + timeout
        /\ error.ms = timeout
        /\ outcome = "rejected"
        /\ pc = "done"

C6_Witness ==
    /\ kind = "waitUntil"
    /\ error.type = "conditionTimeout"
    /\ startTime = 1
    /\ timeout = 2
    /\ interval = 1
    /\ Len(results) = 3

Max(a, b) == IF a >= b THEN a ELSE b

\* C7 as stated: every poll ends within timeout plus the latency of one
\* predicate / sample evaluation (the lateness of a timer is granted on top).
C7_Original ==
    pc = "done" => Elapsed <= timeout + MaxLatency + MaxLate

\* C7 amended: waitUntil ends within timeout plus the latency of one
\* evaluation (plus the lateness of one timer); waitForElementToBeEnabled and
\* waitForElementToStopMoving do not shorten their last wait and end within
\* timeout plus one evaluation latency plus one full wait: interval or, for
\* waitForElementToStopMoving after an unavailable sample, fallBackTimeout.
C7_ElapsedBound ==
    pc = "done" =>
        /\ kind = "waitUntil" => Elapsed <= timeout + MaxLatency + MaxLate
        /\ kind = "enabled" =>
              Elapsed <= timeout + MaxLatency + interval + MaxLate
        /\ kind = "stable" =>
              Elapsed <= timeout + MaxLatency
                            + Max(interval, fallBackTimeout) + MaxLate

C7_Witness ==
    /\ pc = "done"
    /\ kind = "enabled"
    /\ error.type = "notEnabled"
    /\ interval = 2
    /\ Elapsed = timeout + MaxLatency + 1

\* C8: no poll resolves on timeout: waitUntil resolves only if its last
\* condition evaluation returned true, waitForElementToBeEnabled only if its
\* last sample was enabled, waitForElementToStopMoving only if stableChecks
\* reached stableCount or a sample was unavailable; every other call that
\* ends, ends with a throw.
C8_ResolvedOnlyOnSuccess ==
    pc = "done" =>
        /\ outcome \in {"resolved", "rejected"}
        /\ outcome = "resolved" =>
              /\ results # <<>>
              /\ kind = "waitUntil" => Last(results).tag = "true"
              /\ kind = "enabled" => Last(results).tag = "true"
              /\ kind = "stable" =>
                    \/ stableChecks >= stableCount
                    \/ GetPosition(Last(results)) = Null
        /\ outcome = "rejected" => error # NoError

C8_Witness ==
    /\ pc = "done"
    /\ kind = "enabled"
    /\ outcome = "rejected"
    /\ error.type = "notEnabled"
    /\ Len(results) = 2
    /\ now >= startTime + timeout

\* the length of the maximal run of identical elements that ends rs
RECURSIVE RunLen(_)
RunLen(rs) ==
    IF Len(rs) <= 1 THEN Len(rs)
    ELSE IF rs[Len(rs) - 1] = rs[Len(rs)]
      THEN 1 + RunLen(SubSeq(rs, 1, Len(rs) - 1))
      ELSE 1

\* C9 as stated: for every stableCount >= 1, waitForElementToStopMoving
\* succeeds as soon as stableChecks reaches stableCount, on the sample that
\* completes a run of stableCount identical positions, and takes no further
\* sample.
C9_Claim ==
    (/\ kind = "stable"
     /\ results # <<>>
     /\ Last(results).tag = "pos"
     /\ RunLen(results) >= stableCount) =>
        /\ pc = "done"
        /\ outcome = "resolved"
        /\ RunLen(results) = stableCount

\* C10: after each available sample is processed, stableChecks is the length
\* of the maximal run of identical consecutive positions that ends at that
\* sample, and lastPosition is that sample.
C10_StableChecksIsRunLength ==
    (kind = "stable" /\ results # <<>> /\ Last(results).tag = "pos") =>
        /\ stableChecks = RunLen(results)
        /\ lastPosition = Last(results)

C10_Witness ==
    /\ kind = "stable"
    /\ Len(results) = 3
    /\ results[1] = results[2]
    /\ results[3].tag = "pos"
    /\ results[3].x = results[2].x
    /\ results[3].y # results[2].y
    /\ stableChecks = 1
    /\ lastPosition = results[3]

\* the sample function getPosition gave no position: getAttributes threw or
\* the attributes hold no numeric frame
Unavailable(r) == r.tag \in {"attrThrow", "noFrame"}

\* C11: whenever a sample of waitForElementToStopMoving is unavailable, on
\* the first or any later iteration, the poll waits one fallback delay and
\* then resolves: no further sample, no error, the sample function's error is
\* not propagated.
C11_UnavailableResolvesAfterFallback ==
    \A k \in 1..Len(results) :
        (kind = "stable" /\ Unavailable(results[k])) =>
            /\ k = Len(results)
            /\ Len(waits) = k
            /\ Last(waits) = fallBackTimeout
            /\ \A j \in 1..(k - 1) : waits[j] = interval
            /\ pc \in {"fallback", "done"}
            /\ error = NoError
            /\ pc = "fallback" => outcome = "none"
            /\ pc = "done" => outcome = "resolved" /\ now >= wakeAt

C11_Witness ==
    /\ kind = "stable"
    /\ Len(results) = 3
    /\ results[3].tag = "attrThrow"
    /\ pc = "done"
    /\ outcome = "resolved"
    /\ now = wakeAt

\* the length of the longest run of identical consecutive elements of rs
RECURSIVE MaxRun(_)
MaxRun(rs) ==
    IF rs = <<>> THEN 0
    ELSE Max(RunLen(rs), MaxRun(SubSeq(rs, 1, Len(rs) - 1)))

AllPositions(rs) == \A k \in 1..Len(rs) : rs[k].tag = "pos"

\* C12: if every sample is available and the call ends before a run of
\* stableCount identical consecutive positions was observed,
\* waitForElementToStopMoving has thrown the stability-timeout error, at or
\* after start + timeout, and has not resolved.
C12_NoStableRunThrows ==
    (/\ kind = "stable"
     /\ pc = "done"
     /\ AllPositions(results)
     /\ MaxRun(results) < stableCount) =>
        /\ outcome = "rejected"
        /\ error = NotStableError
        /\ now >= startTime + timeout

C12_Witness ==
    /\ kind = "stable"
    /\ pc = "done"
    /\ stableCount = 3
    /\ Len(results) = 3
    /\ AllPositions(results)
    /\ results[1] = results[3]
    /\ results[1] # results[2]
    /\ interval = 1
    /\ timeout = 3
    /\ error = NotStableError

\* C13: waitForElementToBeEnabled waits interval between two samples, and
\* resolves right after the first sample that is true, without sampling
\* again; if every sample is false it throws 'Element is not enabled' once
\* timeout has elapsed.
C13_EnabledPolling ==
    kind = "enabled" =>
        /\ \A k \in 1..Len(waits) : waits[k] = interval
        /\ \A k \in 1..Len(results) :
              results[k].tag = "true" =>
                  /\ k = Len(results)
                  /\ Len(waits) = k - 1
                  /\ pc = "done"
                  /\ outcome = "resolved"
        /\ (pc = "done" /\ AllFalse(results)) =>
              /\ outcome = "rejected"
              /\ error = NotEnabledError
              /\ Len(waits) = Len(results)
              /\ now >= startTime + timeout

C13_Witness ==
    /\ kind = "enabled"
    /\ interval = 1
    /\ Len(results) = 3
    /\ results[1].tag = "false"
    /\ results[2].tag = "false"
    /\ results[3].tag = "true"
    /\ waits = <<1, 1>>
    /\ outcome = "resolved"

\* C14: waitUntil never suspends past its deadline: endTime is fixed at the
\* call, every suspension lasts min(interval, endTime - now), so every wake-up
\* is scheduled at or before endTime, and every wake-up is followed by one
\* more condition evaluation.
C14_NeverSleepsPastDeadline ==
    /\ []((kind = "waitUntil" /\ pc # "idle") =>
            /\ endTime = startTime + timeout
            /\ pc # "fallback"
            /\ pc = "sleeping" =>
                  /\ waits # <<>>
                  /\ wakeAt <= endTime
                  /\ Last(waits) =
                        Min(interval, endTime - (wakeAt - Last(waits))))
    /\ [][(kind = "waitUntil" /\ pc = "sleeping" /\ pc' # "sleeping") =>
            /\ pc' = "evaluating"
            /\ evalStart' = now
            /\ endTime' = endTime]_vars

C14_Witness ==
    /\ kind = "waitUntil"
    /\ pc = "sleeping"
    /\ interval = 2
    /\ Last(waits) = 1
    /\ wakeAt = endTime
    /\ Len(results) = 2

\* the sample that ended before the pending or last timer was armed ended at
SampleEnd == wakeAt - interval

\* what C15 says of every suspension of waitForElementToBeEnabled: it lasts
\* interval, also when less than interval remains, and no sample follows the
\* wait that crosses the deadline
C15_FixedInterval ==
    kind = "enabled" =>
        /\ \A k \in 1..Len(waits) : waits[k] = interval
        /\ pc = "sleeping" => wakeAt - Last(waits) = SampleEnd
        /\ error = NotEnabledError => Len(waits) = Len(results)

\* C15 as stated: every suspension lasts exactly interval, the final wait is
\* not shortened, and the not-enabled failure is raised later than
\* start + timeout by at most one interval, with no sample after that wait.
C15_Original ==
    /\ C15_FixedInterval
    /\ (kind = "enabled" /\ error = NotEnabledError) =>
          Elapsed <= timeout + interval

\* C15 amended: every suspension lasts exactly interval, the final wait is
\* not shortened, and the not-enabled failure is raised after the last sample,
\* which started before start + timeout, has returned, one interval has
\* passed and the timer has fired: later than start + timeout by less than
\* one interval plus the latency of that sample plus the lateness of that
\* timer.
C15_FailureAfterFullInterval ==
    /\ C15_FixedInterval
    /\ (kind = "enabled" /\ error = NotEnabledError /\ results # <<>>) =>
          /\ evalStart < startTime + timeout
          /\ SampleEnd - evalStart <= MaxLatency
          /\ now - wakeAt <= MaxLate
          /\ Elapsed < timeout + interval + (SampleEnd - evalStart)
                          + (now - wakeAt)
    /\ (kind = "enabled" /\ error = NotEnabledError /\ results = <<>>) =>
          timeout = 0 /\ Elapsed = 0

C15_Witness ==
    /\ kind = "enabled"
    /\ error = NotEnabledError
    /\ punctual
    /\ timeout = 3
    /\ interval = 2
    /\ Len(results) = 2
    /\ Elapsed = 4

\* an evaluation of the predicate / sample is started by this step
EvaluationStarts ==
    pc' = "evaluating" /\ (pc # "evaluating" \/ results' # results)

\* C17: within one poll the evaluations are strictly sequential: an
\* evaluation starts only at the call or after the previous evaluation has
\* completed and the timer armed after it has fired, so at most one
\* evaluation is in flight.
C17_SequentialEvaluations ==
    /\ [](pc = "evaluating" => Len(waits) = Len(results))
    /\ [][EvaluationStarts =>
            \/ pc = "idle" /\ results = <<>>
            \/ /\ pc = "sleeping"
               /\ now >= wakeAt
               /\ results' = results
               /\ Len(waits) = Len(results)]_vars
    /\ [][results' # results =>
            /\ pc = "evaluating"
            /\ Len(results') = Len(results) + 1]_vars

C17_Witness ==
    /\ kind = "stable"
    /\ pc = "evaluating"
    /\ Len(results) = 2
    /\ waits = <<0, 0>>
    /\ evalStart = wakeAt

\* the model stops the poll at MaxEvals evaluations: one more is due
Capped ==
    /\ pc = "sleeping"
    /\ Len(results) = MaxEvals
    /\ kind = "waitUntil" \/ now - startTime < timeout

\* the call has ended in exactly one of: success, the error thrown by the
\* predicate, the timeout error
EndedOneWay ==
    \/ outcome = "resolved" /\ error = NoError
    \/ /\ outcome = "rejected"
       /\ error.type \in {"predicate", "conditionTimeout", "notEnabled",
                          "notStable"}
       /\ error.type = "predicate" => Last(results).err = error.err
       /\ error.type # "predicate" => now >= startTime + timeout

C19_DisabledNegatesEnabled ==
    /\ disabledResult # <<>> => disabledResult[1] = ~elementEnabled
    /\ (enabledResult # <<>> /\ disabledResult # <<>>)
         => disabledResult[1] = ~enabledResult[1]

\* ---------------------------------------------------------------- C20
\* the value under a key of partial is found under that key of actual:
\* strictly equal, or, when deep is true and the value is an object, an
\* object that has every key of it with a strictly equal value
ContainsValue(a, p, path) ==
    IF deep /\ IsObject(p)
      THEN /\ IsObject(a)
           /\ \A j \in DOMAIN p.f :
                j \in DOMAIN a.f /\ StrictEquals(a.f[j], p.f[j], FALSE)
      ELSE StrictEquals(a, p, path \in sameRef)

\* every key of partial is an own key of actual with an equal value
Contains ==
    \A k \in DOMAIN partial.f :
      k \in DOMAIN actual.f /\ ContainsValue(actual.f[k], partial.f[k], <<k>>)

\* the keys of partial under which both objects hold an object that deep
\* comparison descends into
Descended ==
    {k \in DOMAIN partial.f \cap DOMAIN actual.f :
       deep /\ IsObject(partial.f[k]) /\ IsObject(actual.f[k])}

\* every missing key and every mismatching value, at every depth
Issues ==
    {MissingKey(<<k>>) : k \in DOMAIN partial.f \ DOMAIN actual.f}
      \cup {ValueMismatch(<<k>>) :
              k \in {j \in (DOMAIN partial.f \cap DOMAIN actual.f) \ Descended :
                       IF deep /\ IsObject(partial.f[j])
                         THEN TRUE
                         ELSE ~StrictEquals(actual.f[j], partial.f[j],
                                            <<j>> \in sameRef)}}
      \cup UNION {{MissingKey(<<k, j>>) :
                     j \in DOMAIN partial.f[k].f \ DOMAIN actual.f[k].f}
                  : k \in Descended}
      \cup UNION {{ValueMismatch(<<k, j>>) :
                     j \in {i \in DOMAIN partial.f[k].f \cap DOMAIN actual.f[k].f :
                              ~StrictEquals(actual.f[k].f[i], partial.f[k].f[i],
                                            FALSE)}}
                  : k \in Descended}

\* C20: checkIfObjectContains resolves exactly when every key of partial is
\* an own key of actual with an equal value (compared recursively for nested
\* objects when deep is true); otherwise it rejects with one error that lists
\* every missing key and every mismatching value once, not only the first.
C20_ResolvesIffContainsElseListsAll ==
    containsOutcome # "pending" =>
      /\ (containsOutcome = "resolved") <=> Contains
      /\ containsOutcome = "resolved" => containsError = <<>>
      /\ containsOutcome = "rejected" =>
           /\ {containsError[i] : i \in 1..Len(containsError)} = Issues
           /\ Len(containsError) = Cardinality(Issues)

\* a deep comparison rejected with a missing key and with a mismatch inside
\* a nested object, both listed
C20_Witness ==
    /\ containsOutcome = "rejected"
    /\ deep
    /\ Len(containsError) >= 2
    /\ containsError[1].kind = "missing"
    /\ \E i \in 1..Len(containsError) :
         containsError[i].kind = "mismatch" /\ Len(containsError[i].path) = 2

\* ---------------------------------------------------------------- C21
\* s is an initial part of t
IsPrefix(s, t) == Len(s) <= Len(t) /\ \A k \in 1..Len(s) : s[k] = t[k]

\* C21: waitAndTap performs its steps in the order visibility wait (skipped
\* only when skipVisibilityCheck is true), delayBeforeTap, wait-for-enabled,
\* tap; the tap is issued at most once and only after
\* waitForElementToBeEnabled has observed the element enabled; no tap is
\* issued if the visibility wait or the enabled wait fails.
C21_TapOnlyAfterEnabled ==
    /\ IsPrefix(steps, StepOrder(skipVisibilityCheck))
    /\ pc # "idle" => (kind = "enabled" /\ Last(steps) \in {"delay", "enabled", "tap"})
    /\ taps <= 1
    /\ taps = 1 => /\ pc = "done"
                   /\ outcome = "resolved"
                   /\ results # <<>>
                   /\ Last(results).tag = "true"
    /\ tapFailed \in {"element", "visibility", "enabled"} => taps = 0

\* a tap issued after the visibility wait, a delay and an enabled wait that
\* saw the element disabled first
C21_Witness ==
    /\ tapOutcome = "resolved"
    /\ taps = 1
    /\ ~skipVisibilityCheck
    /\ delayBeforeTap > 0
    /\ Len(results) >= 2
    /\ steps = <<"visibility", "delay", "enabled", "tap">>

\* ---------------------------------------------------------------- C22
\* the call ended with the timeout error of its poller
TimedOut ==
    /\ pc = "done"
    /\ outcome = "rejected"
    /\ error.type \in {"conditionTimeout", "notEnabled", "notStable"}

\* C22: every poller evaluates its predicate at least once before it can
\* fail with a timeout, for every timeout >= 0 including timeout = 0.
C22_SampledBeforeTimeout == TimedOut => results # <<>>

\* ---------------------------------------------------------------- C23
\* the ids in s, as a set
Range(s) == {s[k] : k \in 1..Len(s)}

\* how many times id occurs in s
Count(s, id) == Cardinality({k \in 1..Len(s) : s[k] = id})

\* the listening queue, with the appends that are queued but not rendered yet
Queued == Range(ApplyUpdates(listening, updates))

\* the ids of s that are also in t, in the order of s
RECURSIVE Restrict(_, _)
Restrict(s, ids) ==
    IF s = <<>> THEN <<>>
    ELSE IF Head(s) \in ids THEN <<Head(s)>> \o Restrict(Tail(s), ids)
                            ELSE Restrict(Tail(s), ids)

\* C23: no transaction id passed to addTransactionMetaIdForListening is ever
\* lost: each added id is still in the listening queue or has received
\* exactly one subscription for transactionConfirmed, and ids are subscribed
\* in the order they were added.
C23_NoIdLost ==
    /\ \A id \in Range(added) :
         \/ id \in Queued /\ Count(confirmedSubs, id) = 0
         \/ Count(confirmedSubs, id) = 1
    /\ confirmedSubs = Restrict(added, Range(confirmedSubs))

\* ---------------------------------------------------------------- C24
\* C24: every queued transaction id whose entry exists in swapsTransactions
\* is eventually subscribed for transactionConfirmed and removed from the
\* listening queue, whatever ids are queued before it.
C24_QueuedWithEntryIsSubscribed ==
    \A id \in TxIds :
      (id \in Range(added) /\ id \in swapsTransactions)
        ~> (id \in Range(confirmedSubs) /\ id \notin Queued)

\* ---------------------------------------------------------------- C25
\* the events by which autoSign hands a transaction over to signing
HandOvers == {"navigate", "acceptPendingApproval"}

\* how many events of the kinds in es the handler of id has logged
Logged(id, es) == Cardinality({k \in 1..Len(txLog[id]) : txLog[id][k] \in es})

\* C25: in autoSign the one-shot transactionFinished subscription is
\* registered before the transaction is handed to signing; each call hands
\* the transaction over at most once, by one route: Ledger accounts navigate
\* to the Ledger modal and never call acceptPendingApproval, all other
\* accounts call acceptPendingApproval and never navigate; if
\* resetQRKeyringState or getDeviceId fails, neither happens.
C25_OneRouteAfterSubscription ==
    \A id \in TxIds :
      /\ Logged(id, HandOvers) <= 1
      /\ Logged(id, HandOvers) = 1 =>
           /\ txLog[id][1] = "subscribeFinished"
           /\ Logged(id, {"subscribeFinished"}) = 1
           /\ txLog[id][Len(txLog[id])] \in HandOvers
      /\ txMeta[id].ledger => Logged(id, {"acceptPendingApproval"}) = 0
      /\ ~txMeta[id].ledger => Logged(id, {"navigate"}) = 0
      /\ Logged(id, {"alert", "trackCanceled"}) > 0 => Logged(id, HandOvers) = 0

\* one transaction of a Ledger account handed to the Ledger modal, one of
\* another account accepted
C25_Witness ==
    /\ txMeta["tx1"].ledger
    /\ txLog["tx1"] = <<"subscribeFinished", "queued", "navigate">>
    /\ ~txMeta["tx2"].ledger
    /\ txLog["tx2"] = <<"subscribeFinished", "queued", "acceptPendingApproval">>

\* ---------------------------------------------------------------- C26
Dispatches == {"setTransactionObject", "setEtherTransaction"}
ModalTypes == {"Transaction", "Dapp"}

C27_FavoritesEqualReference ==
    /\ \A token \in Tokens : SelectIsFavoriteToken(token) <=> token \in reference
    /\ SelectFavoriteTokensCount = Cardinality(reference)

\* ---------------------------------------------------------------- C28
\* C28: token identities round-trip through the favorites store: for every
\* favorited token selectFavoriteTokensList has an entry with the same
\* address, chainId and staked flag, and two tokens that differ in address,
\* chainId or staked flag never share one serialized id.
C28_IdentitiesRoundTrip ==
    /\ \A token \in reference : token \in SelectFavoriteTokensList
    /\ \A token \in reference, other \in Tokens :
         token # other => SerializeTokenId(token) # SerializeTokenId(other)

====
